---- MODULE Spec2Model ----
(***************************************************************************)
(* Polar-shape evaluation, tessellation and angle normalisation of         *)
(* egui_extras_xt/src/common.rs.                                           *)
(*                                                                         *)
(* f32 values are modelled as an IEEE-754 binary format with the same 8    *)
(* exponent bits as f32 (same overflow and underflow range, +inf, -inf,    *)
(* NaN, subnormals, round-to-nearest-even) and a 12-bit significand        *)
(* instead of 24 bits.  A value is the integer whose magnitude is the bit  *)
(* pattern (biased exponent * 2^11 + fraction) and whose sign is the       *)
(* float's sign, so that finite values are ordered like the integers.      *)
(***************************************************************************)
EXTENDS Integers, Sequences, FiniteSets, TLC

\* ------------------------------------------------------------------------
\* The float format
\* ------------------------------------------------------------------------

MantBits == 12
ExpBits == 8
Bias == 127
FracBits == MantBits - 1
Hidden == 2^FracBits
EInf == 2^ExpBits - 1
EMinLsb == 1 - Bias - FracBits

PInf == EInf * Hidden
NInf == -PInf
NaN == PInf + 1

IsNaN(a) == a > PInf \/ a < NInf
IsInf(a) == a = PInf \/ a = NInf
IsFinite(a) == NInf < a /\ a < PInf

IAbs(n) == IF n < 0 THEN -n ELSE n
IMax(a, b) == IF a < b THEN b ELSE a
IMin(a, b) == IF a < b THEN a ELSE b
Sgn(n) == IF n < 0 THEN -1 ELSE 1

RECURSIVE BitLen(_)
BitLen(M) == IF M = 0 THEN 0 ELSE 1 + BitLen(M \div 2)

\* significand and exponent of the least significant bit of a finite value:
\* |a| = Sig(a) * 2^Exp(a)
Sig(a) ==
    LET n == IAbs(a)
    IN IF n \div Hidden = 0 THEN n % Hidden ELSE Hidden + (n % Hidden)

Exp(a) ==
    LET n == IAbs(a)
    IN IF n \div Hidden = 0 THEN EMinLsb ELSE (n \div Hidden) - Bias - FracBits

\* the bit pattern of m * 2^e, m <= 2^MantBits already rounded
Encode(m, e) ==
    LET mm == IF m = 2^MantBits THEN Hidden ELSE m
        ee == IF m = 2^MantBits THEN e + 1 ELSE e
        be == ee + Bias + FracBits
    IN IF mm < Hidden THEN mm
       ELSE IF be >= EInf THEN PInf
       ELSE be * Hidden + (mm - Hidden)

\* round-to-nearest-even of the exact value M * 2^E, 0 <= M < 2^30
Pack(M, E) ==
    IF M = 0 THEN 0
    ELSE LET L == BitLen(M)
             s == IMax(L - MantBits, EMinLsb - E)
         IN IF s > L THEN 0
            ELSE IF s <= 0 THEN Encode(M * 2^(-s), E + s)
            ELSE LET q == M \div 2^s
                     r == M % 2^s
                     half == 2^(s - 1)
                     up == r > half \/ (r = half /\ (q % 2) = 1)
                 IN Encode(IF up THEN q + 1 ELSE q, E + s)

FromNat(n) == Pack(n, 0)

\* ------------------------------------------------------------------------
\* f32 arithmetic
\* ------------------------------------------------------------------------

FNeg(a) == IF IsNaN(a) THEN NaN ELSE -a
FAbs(a) == IF IsNaN(a) THEN NaN ELSE IAbs(a)

FEq(a, b) == ~IsNaN(a) /\ ~IsNaN(b) /\ a = b
FLt(a, b) == ~IsNaN(a) /\ ~IsNaN(b) /\ a < b
FLe(a, b) == ~IsNaN(a) /\ ~IsNaN(b) /\ a <= b
FGt(a, b) == FLt(b, a)
FGe(a, b) == FLe(b, a)

\* f32::min and f32::max return the other operand when one is NaN
FMin(a, b) == IF IsNaN(a) THEN b ELSE IF IsNaN(b) THEN a ELSE IMin(a, b)
FMax(a, b) == IF IsNaN(a) THEN b ELSE IF IsNaN(b) THEN a ELSE IMax(a, b)

FAdd(a, b) ==
    IF IsNaN(a) \/ IsNaN(b) THEN NaN
    ELSE IF IsInf(a) THEN (IF IsInf(b) /\ a # b THEN NaN ELSE a)
    ELSE IF IsInf(b) THEN b
    ELSE IF a = 0 THEN b
    ELSE IF b = 0 THEN a
    ELSE LET ea == Exp(a)
             eb == Exp(b)
             e == IMin(ea, eb)
         IN IF ea - eb > MantBits + 2 THEN a
            ELSE IF eb - ea > MantBits + 2 THEN b
            ELSE LET M == Sgn(a) * Sig(a) * 2^(ea - e) + Sgn(b) * Sig(b) * 2^(eb - e)
                 IN Sgn(M) * Pack(IAbs(M), e)

FSub(a, b) == FAdd(a, FNeg(b))

FMul(a, b) ==
    IF IsNaN(a) \/ IsNaN(b) THEN NaN
    ELSE IF IsInf(a) \/ IsInf(b)
         THEN (IF a = 0 \/ b = 0 THEN NaN ELSE Sgn(a) * Sgn(b) * PInf)
    ELSE Sgn(a) * Sgn(b) * Pack(Sig(a) * Sig(b), Exp(a) + Exp(b))

\* the quotient carries a sticky bit so that Pack rounds the exact value
FDiv(a, b) ==
    IF IsNaN(a) \/ IsNaN(b) THEN NaN
    ELSE IF IsInf(a) THEN (IF IsInf(b) THEN NaN ELSE Sgn(a) * Sgn(b) * PInf)
    ELSE IF IsInf(b) THEN 0
    ELSE IF b = 0 THEN (IF a = 0 THEN NaN ELSE Sgn(a) * PInf)
    ELSE IF a = 0 THEN 0
    ELSE LET up == MantBits - BitLen(Sig(a))
             ma == Sig(a) * 2^up
             Q == (ma * 2^17) \div Sig(b)
             st == IF (ma * 2^17) % Sig(b) = 0 THEN 0 ELSE 1
         IN Sgn(a) * Sgn(b) * Pack(2 * Q + st, Exp(a) - up - 17 - Exp(b) - 1)

RECURSIVE Pow2Mod(_, _)
Pow2Mod(d, m) ==
    IF d = 0 THEN 1 % m
    ELSE LET h == Pow2Mod(d \div 2, m)
             sq == (h * h) % m
         IN IF (d % 2) = 1 THEN (2 * sq) % m ELSE sq

\* the % operator of f32 (fmod): exact, with the sign of the dividend
FRem(a, b) ==
    IF IsNaN(a) \/ IsNaN(b) \/ IsInf(a) \/ b = 0 THEN NaN
    ELSE IF IsInf(b) THEN a
    ELSE LET ea == Exp(a)
             eb == Exp(b)
         IN IF ea >= eb
            THEN Sgn(a) * Pack((Sig(a) * Pow2Mod(ea - eb, Sig(b))) % Sig(b), eb)
            ELSE IF eb - ea >= MantBits THEN a
            ELSE Sgn(a) * Pack(Sig(a) % (Sig(b) * 2^(eb - ea)), ea)

RECURSIVE ISqrtAux(_, _, _)
ISqrtAux(M, r, bit) ==
    IF bit = 0 THEN r
    ELSE IF (r + bit) * (r + bit) <= M THEN ISqrtAux(M, r + bit, bit \div 2)
    ELSE ISqrtAux(M, r, bit \div 2)

ISqrt(M) == ISqrtAux(M, 0, 2^14)

FSqrt(a) ==
    IF IsNaN(a) \/ a < 0 THEN NaN
    ELSE IF a = PInf \/ a = 0 THEN a
    ELSE LET up == MantBits - BitLen(Sig(a))
             e0 == Exp(a) - up
             k == IF (e0 % 2) = 0 THEN 16 ELSE 17
             M == Sig(a) * 2^(up + k)
             S == ISqrt(M)
             st == IF S * S = M THEN 0 ELSE 1
         IN Pack(2 * S + st, ((e0 - k) \div 2) - 1)

\* ------------------------------------------------------------------------
\* f32::cos, f32::sin, f32::asin, f32::powf
\*
\* The library functions are computed in fixed point (FxBits fractional
\* bits) after reduction modulo 2*pi, and the result is rounded to a float.
\* ------------------------------------------------------------------------

FxBits == 13
FxOne == 2^FxBits
TwoPiFx == 51472
PiFx == 25736
HalfPiFx == 12868

One == FromNat(1)
Two == FromNat(2)

\* |a| modulo 2*pi, in fixed point
ToFx(a) ==
    LET k == Exp(a) + FxBits
    IN IF k >= 0 THEN (Sig(a) * Pow2Mod(k, TwoPiFx)) % TwoPiFx
       ELSE IF -k >= MantBits + 1 THEN 0
       ELSE ((Sig(a) + 2^(-k - 1)) \div 2^(-k)) % TwoPiFx

FromFx(v) == Sgn(v) * Pack(IAbs(v), -FxBits)

\* cosine of x in [0, pi/2]: the Taylor polynomial to x^10, by Horner's rule
CosFx(x) ==
    LET x2 == (x * x) \div FxOne
        h5 == FxOne - (x2 \div 90)
        h4 == FxOne - ((x2 * h5) \div (56 * FxOne))
        h3 == FxOne - ((x2 * h4) \div (30 * FxOne))
        h2 == FxOne - ((x2 * h3) \div (12 * FxOne))
    IN FxOne - ((x2 * h2) \div (2 * FxOne))

\* cosine of x in [0, 2*pi)
CosRed(x) ==
    IF x <= HalfPiFx THEN CosFx(x)
    ELSE IF x <= PiFx THEN -CosFx(PiFx - x)
    ELSE IF x <= PiFx + HalfPiFx THEN -CosFx(x - PiFx)
    ELSE CosFx(TwoPiFx - x)

SinRed(x) == CosRed((x + PiFx + HalfPiFx) % TwoPiFx)

IsTiny(a) == Exp(a) + MantBits < -6

FCos(a) ==
    IF IsNaN(a) \/ IsInf(a) THEN NaN
    ELSE IF IsTiny(a) THEN One
    ELSE FromFx(CosRed(ToFx(a)))

FSin(a) ==
    IF IsNaN(a) \/ IsInf(a) THEN NaN
    ELSE IF IsTiny(a) THEN a
    ELSE Sgn(a) * FromFx(SinRed(ToFx(a)))

RECURSIVE AsinSearch(_, _, _)
AsinSearch(y, lo, hi) ==
    IF hi - lo <= 1 THEN (IF CosFx(HalfPiFx - hi) <= y THEN hi ELSE lo)
    ELSE LET mid == (lo + hi) \div 2
         IN IF CosFx(HalfPiFx - mid) <= y THEN AsinSearch(y, mid, hi)
            ELSE AsinSearch(y, lo, mid)

FAsin(c) ==
    IF IsNaN(c) \/ FGt(FAbs(c), One) THEN NaN
    ELSE IF IsTiny(c) THEN c
    ELSE LET k == Exp(c) + FxBits
             y == IF k >= 0 THEN Sig(c) * 2^k ELSE (Sig(c) + 2^(-k - 1)) \div 2^(-k)
         IN Sgn(c) * FromFx(AsinSearch(y, 0, HalfPiFx))

\* x^(2^e) by repeated squaring (e >= 0) or repeated square roots (e < 0)
RECURSIVE Pow2k(_, _)
Pow2k(x, e) ==
    IF e = 0 \/ x = 0 \/ x = One \/ x = PInf THEN x
    ELSE IF e > 0 THEN Pow2k(FMul(x, x), e - 1)
    ELSE Pow2k(FSqrt(x), e + 1)

\* x^(m * 2^e), one factor per bit of m
RECURSIVE PowBits(_, _, _)
PowBits(x, m, e) ==
    IF m = 0 THEN One
    ELSE LET rest == PowBits(x, m \div 2, e + 1)
         IN IF (m % 2) = 1 THEN FMul(Pow2k(x, e), rest) ELSE rest

\* powf; the base is an absolute value or a sum of two at every call site
FPowf(x, y) ==
    IF y = 0 \/ x = One THEN One
    ELSE IF IsNaN(x) \/ IsNaN(y) \/ x < 0 THEN NaN
    ELSE IF IsInf(y)
         THEN (IF (x < One) = (y > 0) THEN 0 ELSE PInf)
    ELSE IF x = 0 \/ x = PInf
         THEN (IF (x = 0) = (y > 0) THEN 0 ELSE PInf)
    ELSE IF y > 0 THEN PowBits(x, Sig(y), Exp(y))
    ELSE FDiv(One, PowBits(x, Sig(y), Exp(y)))

\* ------------------------------------------------------------------------
\* Constants and literals of common.rs
\* ------------------------------------------------------------------------

\* std::f32::consts::TAU, 2*pi rounded to the format
TAU == Pack(3217, -9)

Zero == 0
Quarter == Pack(1, -2)
Half == Pack(1, -1)
Tenth == FDiv(One, FromNat(10))
Thousandth == FDiv(One, FromNat(1000))

RESOLUTION == 32

\* ------------------------------------------------------------------------
\* WidgetShape
\* ------------------------------------------------------------------------

Circle == [tag |-> "Circle"]
Square == [tag |-> "Square"]
Squircle(factor) == [tag |-> "Squircle", factor |-> factor]
Polygon(n) == [tag |-> "Polygon", n |-> n]
SuperPolygon(n, factor) == [tag |-> "SuperPolygon", n |-> n, factor |-> factor]
Rotated(shape, rotation) == [tag |-> "Rotated", shape |-> shape, rotation |-> rotation]
Mix(shape_a, shape_b, t) ==
    [tag |-> "Mix", shape_a |-> shape_a, shape_b |-> shape_b, t |-> t]
Custom(callback) == [tag |-> "Custom", callback |-> callback]

\* The outcome of a call that can panic: a value, or the unwinding panic.
Ok(v) == [ok |-> TRUE, v |-> v]
Panic == [ok |-> FALSE, v |-> 0]

\* Caller-supplied closures of the Custom variant.  The core does not
\* validate what they return, and a closure may itself panic.
Callbacks ==
    {"constant", "cosine", "negative", "infinite", "nan", "panics", "panics_past_pi"}

callback(name, theta) ==
    CASE name = "constant" -> Ok(FAdd(One, Half))
      [] name = "cosine" -> Ok(FCos(theta))
      [] name = "negative" -> Ok(FNeg(One))
      [] name = "infinite" -> Ok(PInf)
      [] name = "nan" -> Ok(NaN)
      [] name = "panics" -> Panic
      [] name = "panics_past_pi" ->
            IF FGt(theta, FDiv(TAU, Two)) THEN Panic ELSE Ok(One)

\* Faulty variants of the radius formulas, each differing from the code in
\* one place; the properties below must tell them from the code.

\* takes the larger of the two reciprocals
eval_Square_max(theta) ==
    Ok(FMax(FDiv(One, FAbs(FCos(theta))), FDiv(One, FAbs(FSin(theta)))))

\* lacks the assertion factor > 0.0
eval_SuperPolygon_closed(n, factor, theta) ==
    IF ~(n >= 3) THEN Panic
    ELSE IF ~(FLe(Zero, factor) /\ FLe(factor, Two)) THEN Panic
    ELSE LET x == FMul(FMul(Quarter, FromNat(n)), theta)
             a == FPowf(FAbs(FCos(x)), factor)
             b == FPowf(FAbs(FSin(x)), factor)
         IN Ok(FPowf(FAdd(a, b), FDiv(FNeg(One), factor)))

\* gives shape_a the weight t and shape_b the weight 1 - t
eval_Mix_swapped(ra, rb, t) ==
    IF ~ra.ok \/ ~rb.ok THEN Panic
    ELSE Ok(FAdd(FMul(ra.v, t), FMul(rb.v, FSub(One, t))))

\* skips the child whose weight is zero
eval_Mix_short_circuit(ra, rb, t) ==
    IF FEq(t, Zero) THEN ra
    ELSE IF FEq(t, One) THEN rb
    ELSE IF ~ra.ok \/ ~rb.ok THEN Panic
    ELSE Ok(FAdd(FMul(ra.v, FSub(One, t)), FMul(rb.v, t)))

eval_Square(theta) ==
    Ok(FMin(FDiv(One, FAbs(FCos(theta))), FDiv(One, FAbs(FSin(theta)))))

eval_Squircle(factor, theta) ==
    IF ~FGt(factor, Zero) THEN Panic
    ELSE LET a == FPowf(FAbs(FCos(theta)), factor)
             b == FPowf(FAbs(FSin(theta)), factor)
         IN Ok(FPowf(FAdd(a, b), FDiv(FNeg(One), factor)))

eval_Polygon(n, theta) ==
    IF ~(n >= 3) THEN Panic
    ELSE LET c == FCos(FMul(FDiv(FromNat(n), Two), theta))
         IN Ok(FDiv(One, FCos(FDiv(FMul(FAsin(c), Two), FromNat(n)))))

eval_SuperPolygon(n, factor, theta) ==
    IF ~(n >= 3) THEN Panic
    ELSE IF ~FGt(factor, Zero) THEN Panic
    ELSE IF ~(FLe(Zero, factor) /\ FLe(factor, Two)) THEN Panic
    ELSE LET x == FMul(FMul(Quarter, FromNat(n)), theta)
             a == FPowf(FAbs(FCos(x)), factor)
             b == FPowf(FAbs(FSin(x)), factor)
         IN Ok(FPowf(FAdd(a, b), FDiv(FNeg(One), factor)))

\* both children are evaluated, shape_a first, before the blend is formed
eval_Mix(ra, rb, t) ==
    IF ~ra.ok \/ ~rb.ok THEN Panic
    ELSE Ok(FAdd(FMul(ra.v, FSub(One, t)), FMul(rb.v, t)))

RECURSIVE eval(_, _)
eval(self, theta) ==
    CASE self.tag = "Circle" -> Ok(One)
      [] self.tag = "Square" -> eval_Square(theta)
      [] self.tag = "Squircle" -> eval_Squircle(self.factor, theta)
      [] self.tag = "Polygon" -> eval_Polygon(self.n, theta)
      [] self.tag = "SuperPolygon" -> eval_SuperPolygon(self.n, self.factor, theta)
      [] self.tag = "Rotated" -> eval(self.shape, FSub(theta, self.rotation))
      [] self.tag = "Mix" ->
            eval_Mix(eval(self.shape_a, theta), eval(self.shape_b, theta), self.t)
      [] self.tag = "Custom" -> callback(self.callback, theta)

\* ------------------------------------------------------------------------
\* Angle normalisation
\* ------------------------------------------------------------------------

\* Faulty variants of the normalisers.

\* lacks the second remainder
normalized_angle_unsigned_excl_once(angle) ==
    FAdd(FRem(angle, TAU), TAU)

\* wraps the upper endpoint as well
normalized_angle_unsigned_incl_wraps_tau(angle) ==
    IF FLt(angle, Zero) THEN FRem(FAdd(FRem(angle, TAU), TAU), TAU)
    ELSE IF FGe(angle, TAU) THEN FRem(angle, TAU)
    ELSE angle

normalized_angle_unsigned_excl(angle) ==
    FRem(FAdd(FRem(angle, TAU), TAU), TAU)

normalized_angle_unsigned_incl(angle) ==
    IF FLt(angle, Zero) THEN FRem(FAdd(FRem(angle, TAU), TAU), TAU)
    ELSE IF FGt(angle, TAU) THEN FRem(angle, TAU)
    ELSE angle

\* ------------------------------------------------------------------------
\* State
\* ------------------------------------------------------------------------

VARIABLES
    op,        \* the function being called
    args,      \* its arguments
    pc,        \* "call", the position inside a paint call, "done" or "panicked"
    ret,       \* the value returned by eval or by a normaliser
    locals,    \* the local vectors of a paint call
    painter    \* the draw commands added to ui.painter(), in order

vars == <<op, args, pc, ret, locals, painter>>

NoRet == Ok(Zero)
NoLocals == [outline_points |-> <<>>, outer_arc |-> <<>>, inner_arc |-> <<>>, i |-> 0]

Returned == pc = "done"
Panicked == pc = "panicked"

\* ------------------------------------------------------------------------
\* Inputs
\* ------------------------------------------------------------------------

MaxSides == 5
MaxEighths == 8

Factors ==
    {FNeg(One), Zero, Half, One, Two, FromNat(4), FromNat(256), FromNat(512), NaN}

Weights == {FNeg(FromNat(3)), Zero, Half, One, FromNat(4)}

Rotations == {Tenth, FNeg(TAU)}

\* a finite angle large enough for sides / 2 * theta to overflow
Huge == Pack(1, 127)

Thetas ==
    {FDiv(FMul(TAU, FromNat(k)), FromNat(8)) : k \in 0..MaxEighths}
        \cup {Tenth, FNeg(One), Huge}

Leaves ==
    {Circle, Square}
        \cup {Squircle(f) : f \in Factors}
        \cup {Polygon(n) : n \in 0..MaxSides}
        \cup {SuperPolygon(n, f) : n \in {2, 3, MaxSides}, f \in Factors}
        \cup {Custom(c) : c \in Callbacks}

MixChildren ==
    {Circle, Square, Squircle(One), Squircle(FromNat(512)), Squircle(Zero),
     Polygon(2), Polygon(3), SuperPolygon(2, One),
     Custom("cosine"), Custom("nan"), Custom("infinite"), Custom("panics")}

NestedChildren == {Circle, Square, Squircle(Zero), Polygon(2), Custom("infinite")}

Mixes == {Mix(a, b, t) : a \in MixChildren, b \in MixChildren, t \in Weights}

EvalShapes ==
    Leaves
        \cup {Rotated(s, r) : s \in Leaves, r \in Rotations}
        \cup Mixes
        \cup {Rotated(Mix(a, b, t), Tenth) :
                a \in NestedChildren, b \in NestedChildren, t \in Weights}
        \cup {Mix(Rotated(a, Tenth), b, t) :
                a \in NestedChildren, b \in NestedChildren, t \in Weights}
        \cup {Mix(a, Rotated(b, Tenth), t) :
                a \in NestedChildren, b \in NestedChildren, t \in Weights}

\* ------------------------------------------------------------------------
\* WidgetShape::eval called on a descriptor
\* ------------------------------------------------------------------------

InitEval ==
    /\ op = "eval"
    /\ args \in [self : EvalShapes, theta : Thetas]
    /\ pc = "call"
    /\ ret = NoRet
    /\ locals = NoLocals
    /\ painter = <<>>

CallEval ==
    /\ op = "eval"
    /\ pc = "call"
    /\ ret' = eval(args.self, args.theta)
    /\ pc' = IF ret'.ok THEN "done" ELSE "panicked"
    /\ UNCHANGED <<op, args, locals, painter>>

NextEval == CallEval

SpecEval == InitEval /\ [][NextEval]_vars

\* ------------------------------------------------------------------------
\* Properties of eval
\* ------------------------------------------------------------------------

EvalEnded == op = "eval" /\ pc # "call"

\* the parameter invariants as C4 lists them: Squircle factor > 0, Polygon
\* sides >= 3, SuperPolygon sides >= 3 and 0 <= factor <= 2, any Mix weight
RECURSIVE ListedInvariantsHold(_)
ListedInvariantsHold(s) ==
    CASE s.tag \in {"Circle", "Square"} -> TRUE
      [] s.tag = "Squircle" -> FGt(s.factor, Zero)
      [] s.tag = "Polygon" -> s.n >= 3
      [] s.tag = "SuperPolygon" ->
            s.n >= 3 /\ FLe(Zero, s.factor) /\ FLe(s.factor, Two)
      [] s.tag = "Rotated" -> ListedInvariantsHold(s.shape)
      [] s.tag = "Mix" ->
            ListedInvariantsHold(s.shape_a) /\ ListedInvariantsHold(s.shape_b)
      [] s.tag = "Custom" -> FALSE

\* C4 as stated: for every descriptor whose listed parameter invariants hold
\* and every finite angle, eval returns a radius that is non-negative and
\* finite.
C4_EvalNonNegativeFiniteForAll ==
    (EvalEnded /\ ListedInvariantsHold(args.self) /\ IsFinite(args.theta))
        => (ret.ok /\ IsFinite(ret.v) /\ ret.v >= 0)

\* the largest Squircle factor for which |cos|^k + |sin|^k cannot underflow
\* to zero: 0.7071^256 = 2^-128 is representable, 0.7071^512 is not
SquircleNoUnderflow == FromNat(256)

\* the parameters under which the radius is non-negative and finite: positive
\* factors (a Squircle factor small enough not to underflow), a blend weight
\* within [0, 1], and no angle handed to a leaf overflowing to infinity
RECURSIVE RadiusWellDefined(_, _)
RadiusWellDefined(s, theta) ==
    CASE s.tag \in {"Circle", "Square"} -> IsFinite(theta)
      [] s.tag = "Squircle" ->
            IsFinite(theta) /\ FGt(s.factor, Zero) /\ FLe(s.factor, SquircleNoUnderflow)
      [] s.tag = "Polygon" ->
            s.n >= 3 /\ IsFinite(FMul(FDiv(FromNat(s.n), Two), theta))
      [] s.tag = "SuperPolygon" ->
            /\ s.n >= 3
            /\ FGt(s.factor, Zero)
            /\ FLe(s.factor, Two)
            /\ IsFinite(FMul(FMul(Quarter, FromNat(s.n)), theta))
      [] s.tag = "Rotated" ->
            IsFinite(s.rotation) /\ RadiusWellDefined(s.shape, FSub(theta, s.rotation))
      [] s.tag = "Mix" ->
            /\ FLe(Zero, s.t)
            /\ FLe(s.t, One)
            /\ RadiusWellDefined(s.shape_a, theta)
            /\ RadiusWellDefined(s.shape_b, theta)
      [] s.tag = "Custom" -> FALSE

\* C4 amended: for Squircle 0 < factor <= 256, Polygon sides >= 3,
\* SuperPolygon sides >= 3 and 0 < factor <= 2, Rotated with a finite offset,
\* Mix with 0 <= t <= 1, nested at will, and every finite angle for which no
\* angle handed to a leaf overflows, eval returns a non-negative finite radius.
C4_EvalNonNegativeFinite ==
    (EvalEnded /\ RadiusWellDefined(args.self, args.theta))
        => (ret.ok /\ IsFinite(ret.v) /\ ret.v >= 0)

\* a blend of two valid shapes, one of them rotated, returned a radius > 1
C4_Witness ==
    /\ EvalEnded
    /\ args.self = Mix(Rotated(Square, Tenth), Square, Half)
    /\ RadiusWellDefined(args.self, args.theta)
    /\ Returned
    /\ ret.v > One
    /\ IsFinite(ret.v)

\* C5 as stated: for all shapes A and B, Custom included, a Mix of weight 0.0
\* evaluates exactly to A's radius and a Mix of weight 1.0 exactly to B's
\* (read for the evaluations that return a value at all).
C5_MixEndpointsExactForAll ==
    (EvalEnded /\ args.self.tag = "Mix" /\ args.self.t \in {Zero, One})
        => LET ra == eval(args.self.shape_a, args.theta)
               rb == eval(args.self.shape_b, args.theta)
               want == IF args.self.t = Zero THEN ra ELSE rb
           IN (ra.ok /\ rb.ok) => (ret.ok /\ FEq(ret.v, want.v))

\* C5 amended: the endpoints are exact whenever both children evaluate
\* without failing, the child of weight zero returns a finite radius and the
\* other child's radius is not NaN.
C5_MixEndpointsExact ==
    (EvalEnded /\ args.self.tag = "Mix" /\ args.self.t \in {Zero, One})
        => LET ra == eval(args.self.shape_a, args.theta)
               rb == eval(args.self.shape_b, args.theta)
               want == IF args.self.t = Zero THEN ra ELSE rb
               dropped == IF args.self.t = Zero THEN rb ELSE ra
           IN (ra.ok /\ rb.ok /\ IsFinite(dropped.v) /\ ~IsNaN(want.v))
                  => (ret.ok /\ FEq(ret.v, want.v))

\* a Mix of weight 0 between a shape whose radius varies with the angle and
\* a different shape has returned the first shape's radius
C5_Witness ==
    /\ EvalEnded
    /\ args.self.tag = "Mix"
    /\ args.self.t = Zero
    /\ args.self.shape_a = Custom("cosine")
    /\ args.self.shape_b = Square
    /\ ret.ok
    /\ ret.v = FCos(args.theta)
    /\ ret.v # One

\* C8 as stated: SuperPolygon(n, k) evaluates to a radius exactly when
\* n >= 3 and 0 <= k <= 2, and fails otherwise.
C8_SuperPolygonClosedRange ==
    (EvalEnded /\ args.self.tag = "SuperPolygon")
        => (ret.ok <=> (args.self.n >= 3 /\ FLe(Zero, args.self.factor)
                            /\ FLe(args.self.factor, Two)))

\* C8 amended: SuperPolygon(n, k) evaluates to a radius exactly when n >= 3
\* and 0 < k <= 2; it fails for n < 3, for k <= 0 (k = 0 included) and for
\* k > 2.
C8_SuperPolygonPreconditions ==
    (EvalEnded /\ args.self.tag = "SuperPolygon")
        => (ret.ok <=> (args.self.n >= 3 /\ FLt(Zero, args.self.factor)
                            /\ FLe(args.self.factor, Two)))

\* a SuperPolygon with enough sides and factor 0 has failed
C8_Witness ==
    /\ EvalEnded
    /\ args.self.tag = "SuperPolygon"
    /\ args.self.n >= 3
    /\ args.self.factor = Zero
    /\ Panicked

\* the parameter invariants C9 lists as violated
RECURSIVE HoldsInvalidLeaf(_)
HoldsInvalidLeaf(s) ==
    CASE s.tag = "Squircle" -> ~FGt(s.factor, Zero)
      [] s.tag \in {"Polygon", "SuperPolygon"} -> s.n < 3
      [] s.tag = "Rotated" -> HoldsInvalidLeaf(s.shape)
      [] s.tag = "Mix" -> HoldsInvalidLeaf(s.shape_a) \/ HoldsInvalidLeaf(s.shape_b)
      [] OTHER -> FALSE

\* C9: a descriptor holding a leaf with a violated parameter invariant never
\* evaluates to a value: every eval of it panics, through any enclosing
\* Rotated or Mix node, whatever the offset or the blend weight.
C9_InvalidParameterFailsFast ==
    (EvalEnded /\ HoldsInvalidLeaf(args.self)) => (Panicked /\ ~ret.ok)

\* a Mix that gives weight 0 to its invalid child has panicked
C9_Witness ==
    /\ EvalEnded
    /\ args.self.tag = "Mix"
    /\ args.self.shape_a = Circle
    /\ args.self.shape_b = Polygon(2)
    /\ args.self.t = Zero
    /\ Panicked

\* ------------------------------------------------------------------------
\* The angle normalisers called on an angle, then again on that angle
\* advanced by whole turns
\* ------------------------------------------------------------------------

MaxTurns == 2

AngleInputs ==
    LET eighths == {FDiv(FMul(TAU, FromNat(k)), FromNat(8)) : k \in 0..(2 * MaxEighths)}
        others == {Tenth, One, FromNat(3), FromNat(100), Pack(1, -20),
                   Pack(1, EMinLsb), FAdd(TAU, Pack(1, -9)), FAdd(TAU, Thousandth),
                   FSub(TAU, Pack(1, -9)), Huge}
    IN eighths \cup others \cup {FNeg(a) : a \in eighths \cup others} \cup {PInf, NInf, NaN}

Normalisers == {"normalized_angle_unsigned_excl", "normalized_angle_unsigned_incl"}

InitAngle ==
    /\ op \in Normalisers
    /\ args \in [angle : AngleInputs]
    /\ pc = "call"
    /\ ret = NoRet
    /\ locals = [earlier |-> <<>>]
    /\ painter = <<>>

CallExcl ==
    /\ op = "normalized_angle_unsigned_excl"
    /\ pc = "call"
    /\ ret' = Ok(normalized_angle_unsigned_excl(args.angle))
    /\ pc' = "done"
    /\ UNCHANGED <<op, args, locals, painter>>

CallIncl ==
    /\ op = "normalized_angle_unsigned_incl"
    /\ pc = "call"
    /\ ret' = Ok(normalized_angle_unsigned_incl(args.angle))
    /\ pc' = "done"
    /\ UNCHANGED <<op, args, locals, painter>>

\* the caller keeps the result, adds one turn to the angle and calls again
AddTurn ==
    /\ op \in Normalisers
    /\ pc = "done"
    /\ Len(locals.earlier) < MaxTurns
    /\ args' = [angle |-> FAdd(args.angle, TAU)]
    /\ locals' = [earlier |-> Append(locals.earlier, ret.v)]
    /\ pc' = "call"
    /\ UNCHANGED <<op, ret, painter>>

NextAngle == CallExcl \/ CallIncl \/ AddTurn

SpecAngle == InitAngle /\ [][NextAngle]_vars

ExclReturned == op = "normalized_angle_unsigned_excl" /\ Returned
InclReturned == op = "normalized_angle_unsigned_incl" /\ Returned

\* the result of the call made one turn earlier
OneTurnEarlier == locals.earlier[Len(locals.earlier)]

InHalfOpenTurn(v) == FLe(Zero, v) /\ FLt(v, TAU)
InClosedTurn(v) == FLe(Zero, v) /\ FLe(v, TAU)

\* C6 as stated: the result lies in [0, 2*pi) and is exactly equal to the
\* result for the angle one turn earlier.
C6_ExclRangeAndExactPeriod ==
    (ExclReturned /\ IsFinite(args.angle))
        => /\ InHalfOpenTurn(ret.v)
           /\ Len(locals.earlier) > 0 => FEq(ret.v, OneTurnEarlier)

\* the spacing of the floats around v
Ulp(v) == Pack(1, Exp(v))

\* the distance between two angles of [0, 2*pi) around the circle
CircularDistance(a, b) ==
    LET d == FAbs(FSub(a, b))
    IN FMin(d, FSub(TAU, d))

\* the rounding of x + 2*pi, and of the addition inside each of the two calls
PeriodTolerance(sum) ==
    FAdd(Ulp(sum), FMul(Two, Ulp(FMul(Two, TAU))))

\* C6 amended: for every finite x the result lies in [0, 2*pi); the result
\* for x + 2*pi equals the result for x only up to f32 rounding: the two differ
\* around the circle by at most one ulp of x + 2*pi plus two ulps of 4*pi.
C6_ExclRangeAndPeriod ==
    (ExclReturned /\ IsFinite(args.angle))
        => /\ InHalfOpenTurn(ret.v)
           /\ Len(locals.earlier) > 0 =>
                FLe(CircularDistance(ret.v, OneTurnEarlier), PeriodTolerance(args.angle))

\* a call one turn after another returned a different value, within rounding
C6_Witness ==
    /\ ExclReturned
    /\ IsFinite(args.angle)
    /\ Len(locals.earlier) > 0
    /\ ret.v # OneTurnEarlier
    /\ InHalfOpenTurn(ret.v)
    /\ FLe(CircularDistance(ret.v, OneTurnEarlier), PeriodTolerance(args.angle))

\* C7: normalized_angle_unsigned_incl returns x unchanged for x in [0, 2*pi]
\* (2*pi stays 2*pi), x modulo 2*pi for x > 2*pi, what the exclusive variant
\* returns for x < 0, and a result within [0, 2*pi] for every finite x.
C7_InclEndpointPreserved ==
    (InclReturned /\ IsFinite(args.angle))
        => /\ InClosedTurn(args.angle) => ret.v = args.angle
           /\ FGt(args.angle, TAU) => ret.v = FRem(args.angle, TAU)
           /\ FLt(args.angle, Zero) => ret.v = normalized_angle_unsigned_excl(args.angle)
           /\ InClosedTurn(ret.v)

\* exactly one turn came back as one turn, not as zero
C7_Witness ==
    /\ InclReturned
    /\ args.angle = TAU
    /\ ret.v = TAU

\* ------------------------------------------------------------------------
\* Tessellation: WidgetShape::paint_shape and WidgetShape::paint_arc
\* ------------------------------------------------------------------------

\* emath::almost_equal
almost_equal(a, b, epsilon) ==
    IF FEq(a, b) THEN TRUE
    ELSE FLe(FMax(FAbs(a), FAbs(b)), epsilon)
            \/ FLe(FDiv(FAbs(FSub(a, b)), FMax(FAbs(a), FAbs(b))), epsilon)

\* emath::lerp over start..=end
lerp(start, end, t) == FAdd(FMul(FSub(One, t), start), FMul(t, end))

\* center + Vec2::angled(angle) * radius * shape_radius
outline_point(center, angle, radius, shape_radius) ==
    [x |-> FAdd(center.x, FMul(FMul(FCos(angle), radius), shape_radius)),
     y |-> FAdd(center.y, FMul(FMul(FSin(angle), radius), shape_radius))]

\* the draw commands of epaint::Shape
convex_polygon(points, fill, stroke) ==
    [kind |-> "convex_polygon", points |-> points, fill |-> fill, stroke |-> stroke]
closed_line(points, stroke) ==
    [kind |-> "closed_line", points |-> points, stroke |-> stroke]
line_segment(points, stroke) ==
    [kind |-> "line_segment", points |-> points, stroke |-> stroke]

Stroke_new(width, color) == [width |-> width, color |-> color]

\* faulty variant: the inner arc is chained in sampling order
Reverse_forward(seq) == seq

RECURSIVE Reverse(_)
Reverse(seq) == IF seq = <<>> THEN <<>> ELSE Append(Reverse(Tail(seq)), Head(seq))

\* faulty variant: the range of paint_arc leaves its upper end out
arc_samples_exclusive == RESOLUTION

\* (0..Self::RESOLUTION) of paint_shape and (0..=Self::RESOLUTION) of paint_arc
shape_samples == RESOLUTION
arc_samples == RESOLUTION + 1

\* the angle sampled at index i by paint_shape
shape_angle(i) == FMul(FDiv(FromNat(i), FromNat(RESOLUTION)), TAU)

\* the angle sampled at index i by paint_arc
arc_angle(i) ==
    lerp(args.start_angle, args.end_angle, FDiv(FromNat(i), FromNat(RESOLUTION)))

\* the radius eval returns at a sampled angle; args.rotation is the angle
\* (rotation * Vec2::RIGHT).angle() of the Rot2 argument
shape_radius(i) == eval(args.self, FSub(shape_angle(i), args.rotation))
arc_radius(i) == eval(args.self, FSub(arc_angle(i), args.rotation))

\* the first n points that the map of paint_shape yields
RECURSIVE shape_points(_)
shape_points(n) ==
    IF n = 0 THEN <<>>
    ELSE Append(shape_points(n - 1),
                outline_point(args.center, shape_angle(n - 1), args.radius,
                              shape_radius(n - 1).v))

\* the first n points that generate_arc_points(radius) yields
RECURSIVE generate_arc_points(_, _)
generate_arc_points(radius, n) ==
    IF n = 0 THEN <<>>
    ELSE Append(generate_arc_points(radius, n - 1),
                outline_point(args.center, arc_angle(n - 1), radius,
                              arc_radius(n - 1).v))

\* faulty variant: only the first sample is evaluated before the fill starts
CollectOutline_unchecked ==
    /\ op = "paint_shape"
    /\ pc = "call"
    /\ IF ~shape_radius(0).ok
       THEN /\ pc' = "panicked"
            /\ UNCHANGED locals
       ELSE /\ pc' = "fill"
            /\ locals' = [locals EXCEPT !.outline_points = shape_points(shape_samples),
                                        !.i = 0]
    /\ UNCHANGED <<op, args, ret, painter>>

\* lines 122-128: every outline point is collected before anything is drawn
CollectOutline ==
    /\ op = "paint_shape"
    /\ pc = "call"
    /\ IF \E i \in 0..(shape_samples - 1) : ~shape_radius(i).ok
       THEN /\ pc' = "panicked"
            /\ UNCHANGED locals
       ELSE /\ pc' = "fill"
            /\ locals' = [locals EXCEPT !.outline_points = shape_points(shape_samples),
                                        !.i = 0]
    /\ UNCHANGED <<op, args, ret, painter>>

\* faulty variant: the last window does not wrap around to the first point
circular_window_no_wrap(points, i) ==
    <<points[i + 1], points[IMin(i + 2, Len(points))]>>

\* the window of circular_tuple_windows at index i
circular_window(points, i) == <<points[i + 1], points[((i + 1) % Len(points)) + 1]>>

\* lines 131-140: one iteration of the for_each
FillTriangle ==
    /\ op = "paint_shape"
    /\ pc = "fill"
    /\ locals.i < Len(locals.outline_points)
    /\ painter' = Append(painter,
           convex_polygon(<<args.center>> \o circular_window(locals.outline_points, locals.i),
                          args.fill, Stroke_new(One, args.fill)))
    /\ locals' = [locals EXCEPT !.i = @ + 1]
    /\ UNCHANGED <<op, args, pc, ret>>

\* faulty variant: the outline is drawn before the fill
OutlineShape_first ==
    /\ op = "paint_shape"
    /\ pc = "fill"
    /\ painter = <<>>
    /\ painter' = Append(painter, closed_line(locals.outline_points, args.stroke))
    /\ UNCHANGED <<op, args, pc, ret, locals>>

\* line 142
OutlineShape ==
    /\ op = "paint_shape"
    /\ pc = "fill"
    /\ locals.i = Len(locals.outline_points)
    /\ painter' = Append(painter, closed_line(locals.outline_points, args.stroke))
    /\ pc' = "done"
    /\ UNCHANGED <<op, args, ret, locals>>

\* faulty variant: the degenerate span is not told apart
degenerate_span_absent == FALSE

\* line 162
degenerate_span == almost_equal(args.start_angle, args.end_angle, Thousandth)

\* lines 162-173: the degenerate span is drawn as one line segment
DegenerateArc ==
    /\ op = "paint_arc"
    /\ pc = "call"
    /\ degenerate_span
    /\ IF ~eval(args.self, FSub(args.start_angle, args.rotation)).ok
       THEN /\ pc' = "panicked"
            /\ UNCHANGED painter
       ELSE /\ painter' = Append(painter,
                   line_segment(
                       <<outline_point(args.center, args.start_angle, args.inner_radius,
                             eval(args.self, FSub(args.start_angle, args.rotation)).v),
                         outline_point(args.center, args.start_angle, args.outer_radius,
                             eval(args.self, FSub(args.start_angle, args.rotation)).v)>>,
                       args.stroke))
            /\ pc' = "done"
    /\ UNCHANGED <<op, args, ret, locals>>

\* line 184
floored_inner_radius == FMax(args.inner_radius, Tenth)

\* lines 175-187: both arcs are collected before anything is drawn
CollectArcs ==
    /\ op = "paint_arc"
    /\ pc = "call"
    /\ ~degenerate_span
    /\ IF \E i \in 0..(arc_samples - 1) : ~arc_radius(i).ok
       THEN /\ pc' = "panicked"
            /\ UNCHANGED locals
       ELSE /\ pc' = "fill"
            /\ locals' = [locals EXCEPT
                  !.outer_arc = generate_arc_points(args.outer_radius, arc_samples),
                  !.inner_arc = generate_arc_points(floored_inner_radius, arc_samples),
                  !.i = 0]
    /\ UNCHANGED <<op, args, ret, painter>>

\* the quad of the window of zip(..).tuple_windows() at index i:
\* outer_1, inner_1, inner_2, outer_2
zip_window_quad(outer, inner, i) ==
    <<outer[i + 1], inner[i + 1], inner[i + 2], outer[i + 2]>>

\* lines 190-200: one iteration of the for_each
FillQuad ==
    /\ op = "paint_arc"
    /\ pc = "fill"
    /\ locals.i + 1 < Len(locals.outer_arc)
    /\ painter' = Append(painter,
           convex_polygon(zip_window_quad(locals.outer_arc, locals.inner_arc, locals.i),
                          args.fill, Stroke_new(One, args.fill)))
    /\ locals' = [locals EXCEPT !.i = @ + 1]
    /\ UNCHANGED <<op, args, pc, ret>>

\* lines 202-208
OutlineArc ==
    /\ op = "paint_arc"
    /\ pc = "fill"
    /\ locals.i + 1 = Len(locals.outer_arc)
    /\ locals' = [locals EXCEPT
          !.outline_points = locals.outer_arc \o Reverse(locals.inner_arc)]
    /\ painter' = Append(painter,
           closed_line(locals.outer_arc \o Reverse(locals.inner_arc), args.stroke))
    /\ pc' = "done"
    /\ UNCHANGED <<op, args, ret>>

PaintShapes ==
    {Circle, Square, Squircle(Two), Polygon(3), SuperPolygon(4, One),
     Rotated(Square, Tenth), Mix(Circle, Square, Half), Custom("cosine"),
     Polygon(2), Custom("panics"), Custom("panics_past_pi")}

PaintCenter == [x |-> FromNat(16), y |-> FromNat(16)]

QuarterTurn == FDiv(TAU, FromNat(4))

\* <<start_angle, end_angle>>
ArcSpans ==
    {<<Zero, Zero>>, <<QuarterTurn, QuarterTurn>>,
     <<QuarterTurn, FAdd(QuarterTurn, Pack(1, Exp(QuarterTurn)))>>,
     <<Zero, Pack(1, -11)>>, <<Zero, QuarterTurn>>, <<QuarterTurn, Zero>>,
     <<Zero, TAU>>, <<FNeg(One), QuarterTurn>>}

InitPaintShape ==
    /\ op = "paint_shape"
    /\ args \in [self : PaintShapes, center : {PaintCenter},
                 radius : {FromNat(10), Half},
                 rotation : {Zero, FDiv(TAU, FromNat(8))},
                 fill : {"fill"}, stroke : {"stroke"}]

InitPaintArc ==
    /\ op = "paint_arc"
    /\ \E span \in ArcSpans :
         args \in [self : PaintShapes, center : {PaintCenter},
                   inner_radius : {Zero, FromNat(5)}, outer_radius : {FromNat(10)},
                   start_angle : {span[1]}, end_angle : {span[2]},
                   rotation : {Zero, FDiv(TAU, FromNat(8))},
                   fill : {"fill"}, stroke : {"stroke"}]

Init ==
    /\ InitPaintShape \/ InitPaintArc
    /\ pc = "call"
    /\ ret = NoRet
    /\ locals = NoLocals
    /\ painter = <<>>

Next ==
    \/ CollectOutline
    \/ FillTriangle
    \/ OutlineShape
    \/ DegenerateArc
    \/ CollectArcs
    \/ FillQuad
    \/ OutlineArc

Spec == Init /\ [][Next]_vars

\* ------------------------------------------------------------------------
\* Properties of the paint calls
\* ------------------------------------------------------------------------

Kinds(k) == {j \in 1..Len(painter) : painter[j].kind = k}

\* C1: a paint_arc call whose start_angle and end_angle are equal (or so close
\* that the guard almost_equal(start_angle, end_angle, 0.001) holds) and that
\* returns has drawn exactly one command, a line segment from the inner to the
\* outer radius at start_angle, and neither a filled polygon nor a closed
\* line, whatever the shape, the radii and the rotation.
C1_DegenerateArcIsOneSegment ==
    (op = "paint_arc" /\ Returned
        /\ almost_equal(args.start_angle, args.end_angle, Thousandth))
    => /\ Len(painter) = 1
       /\ painter[1].kind = "line_segment"
       /\ Len(painter[1].points) = 2
       /\ painter[1].points[1] =
             outline_point(args.center, args.start_angle, args.inner_radius,
                           eval(args.self, FSub(args.start_angle, args.rotation)).v)
       /\ painter[1].points[2] =
             outline_point(args.center, args.start_angle, args.outer_radius,
                           eval(args.self, FSub(args.start_angle, args.rotation)).v)
       /\ Kinds("convex_polygon") = {}
       /\ Kinds("closed_line") = {}

C1_Witness ==
    /\ op = "paint_arc"
    /\ Returned
    /\ FEq(args.start_angle, args.end_angle)
    /\ args.start_angle = QuarterTurn
    /\ args.self = Polygon(3)
    /\ Len(painter) = 1
    /\ painter[1].kind = "line_segment"

\* C2: a paint_arc call whose span does not satisfy the degenerate guard and
\* that returns has drawn exactly RESOLUTION filled quads, the i-th being
\* (outer_i, inner_i, inner_(i+1), outer_(i+1)) over the RESOLUTION + 1
\* samples of the two arcs, and exactly one closed line, which has
\* 2 * (RESOLUTION + 1) points.
C2_ArcIsQuadStripAndOutline ==
    (op = "paint_arc" /\ Returned
        /\ ~almost_equal(args.start_angle, args.end_angle, Thousandth))
    => /\ Len(locals.outer_arc) = RESOLUTION + 1
       /\ Len(locals.inner_arc) = RESOLUTION + 1
       /\ Kinds("convex_polygon") = 1..RESOLUTION
       /\ \A i \in 1..RESOLUTION :
            painter[i].points = <<locals.outer_arc[i], locals.inner_arc[i],
                                  locals.inner_arc[i + 1], locals.outer_arc[i + 1]>>
       /\ Kinds("closed_line") = {RESOLUTION + 1}
       /\ Kinds("line_segment") = {}
       /\ Len(painter[RESOLUTION + 1].points) = 2 * (RESOLUTION + 1)
       /\ Len(painter[RESOLUTION + 1].points) = 66

C2_Witness ==
    /\ op = "paint_arc"
    /\ Returned
    /\ args.start_angle = Zero
    /\ args.end_angle = QuarterTurn
    /\ args.self = Circle
    /\ Len(painter) = 33
    /\ painter[1].kind = "convex_polygon"
    /\ painter[33].kind = "closed_line"

\* C3: a paint_shape call that returns has drawn exactly RESOLUTION filled
\* triangles, the i-th being (center, p_i, p_((i+1) mod RESOLUTION)) so that
\* the last one joins the last outline point to the first, and exactly one
\* closed line through the RESOLUTION outline points.
C3_ShapeIsTriangleFanAndOutline ==
    (op = "paint_shape" /\ Returned)
    => /\ Len(locals.outline_points) = RESOLUTION
       /\ RESOLUTION = 32
       /\ Kinds("convex_polygon") = 1..RESOLUTION
       /\ \A i \in 0..(RESOLUTION - 1) :
            painter[i + 1].points =
                <<args.center, locals.outline_points[i + 1],
                  locals.outline_points[((i + 1) % RESOLUTION) + 1]>>
       /\ Kinds("closed_line") = {RESOLUTION + 1}
       /\ painter[RESOLUTION + 1].points = locals.outline_points
       /\ Len(painter) = RESOLUTION + 1

C3_Witness ==
    /\ op = "paint_shape"
    /\ Returned
    /\ args.self = Polygon(3)
    /\ Len(painter) = 33
    /\ painter[32].kind = "convex_polygon"
    /\ painter[32].points[3] = locals.outline_points[1]
    /\ painter[32].points[2] = locals.outline_points[32]
    /\ painter[32].points[2] # painter[32].points[3]

NonDegenerate ==
    \/ op = "paint_shape"
    \/ op = "paint_arc" /\ ~almost_equal(args.start_angle, args.end_angle, Thousandth)

ClosedLineIsLast ==
    /\ \A j \in Kinds("closed_line") :
          /\ j = Len(painter)
          /\ j = RESOLUTION + 1
          /\ \A k \in 1..(j - 1) : painter[k].kind = "convex_polygon"
    /\ (NonDegenerate /\ Returned) => Kinds("closed_line") # {}

NothingAfterClosedLine ==
    Kinds("closed_line") # {} => painter' = painter

\* C10: in every paint_shape call and every non-degenerate paint_arc call the
\* closed line is the last command drawn: when the call returns the painter
\* ends with it, the RESOLUTION commands before it are all the filled
\* polygons, and no step adds a command once it has been drawn.
C10_OutlineDrawnLast ==
    [](NonDegenerate => ClosedLineIsLast) /\ [][NonDegenerate => NothingAfterClosedLine]_vars

C10_Witness ==
    /\ op = "paint_arc"
    /\ Returned
    /\ args.self = Mix(Circle, Square, Half)
    /\ args.start_angle = Zero
    /\ args.end_angle = TAU
    /\ Len(painter) = RESOLUTION + 1
    /\ painter[RESOLUTION].kind = "convex_polygon"
    /\ painter[RESOLUTION + 1].kind = "closed_line"

\* C11: the closed line of a non-degenerate paint_arc call is the
\* RESOLUTION + 1 outer-arc points in sampling order, from start_angle to
\* end_angle with both ends sampled, followed by the RESOLUTION + 1 inner-arc
\* points in reverse order, from end_angle back to start_angle; the i-th
\* outer and the i-th inner point are taken at the same sample angle, the
\* inner ones at the radius max(inner_radius, 0.1).
C11_ArcOutlineOuterThenInnerReversed ==
    (op = "paint_arc" /\ Returned
        /\ ~almost_equal(args.start_angle, args.end_angle, Thousandth))
    => /\ Len(painter[Len(painter)].points) = 2 * (RESOLUTION + 1)
       /\ FEq(arc_angle(0), args.start_angle)
       /\ FEq(arc_angle(RESOLUTION), args.end_angle)
       /\ \A i \in 0..RESOLUTION :
            /\ painter[Len(painter)].points[i + 1] =
                  outline_point(args.center, arc_angle(i), args.outer_radius,
                                arc_radius(i).v)
            /\ painter[Len(painter)].points[2 * (RESOLUTION + 1) - i] =
                  outline_point(args.center, arc_angle(i),
                                FMax(args.inner_radius, Tenth), arc_radius(i).v)

\* an arc swept backwards with an inner radius below the floor has been
\* outlined: the outline ends where it started, on the start_angle ray
C11_Witness ==
    /\ op = "paint_arc"
    /\ Returned
    /\ args.self = Square
    /\ args.start_angle = QuarterTurn
    /\ args.end_angle = Zero
    /\ args.inner_radius = Zero
    /\ Len(painter) = RESOLUTION + 1
    /\ painter[RESOLUTION + 1].points[1] = locals.outer_arc[1]
    /\ painter[RESOLUTION + 1].points[RESOLUTION + 2] = locals.inner_arc[RESOLUTION + 1]
    /\ painter[RESOLUTION + 1].points[2 * RESOLUTION + 2] = locals.inner_arc[1]
    /\ locals.inner_arc[1] # locals.inner_arc[RESOLUTION + 1]
    /\ locals.inner_arc[1] # locals.outer_arc[1]

\* eval fails at one of the angles the call samples
SampledEvalFails ==
    CASE op = "paint_shape" -> \E i \in 0..(RESOLUTION - 1) : ~shape_radius(i).ok
      [] op = "paint_arc" /\ almost_equal(args.start_angle, args.end_angle, Thousandth) ->
            ~eval(args.self, FSub(args.start_angle, args.rotation)).ok
      [] op = "paint_arc" /\ ~almost_equal(args.start_angle, args.end_angle, Thousandth) ->
            \E i \in 0..RESOLUTION : ~arc_radius(i).ok
      [] OTHER -> FALSE

\* C12: a paint_shape or paint_arc call in which eval fails at any sampled
\* angle draws nothing: it never gets past the collection of its points, and
\* when it has panicked the painter is still empty. A call that has drawn
\* anything is one whose every sample evaluated, and a call panics only
\* because a sample failed.
C12_PaintIsAllOrNothing ==
    IF SampledEvalFails
    THEN painter = <<>> /\ pc \in {"call", "panicked"}
    ELSE ~Panicked

\* a call whose first samples evaluate and whose later ones fail has
\* panicked, with nothing drawn
C12_Witness ==
    /\ op = "paint_arc"
    /\ Panicked
    /\ args.self = Custom("panics_past_pi")
    /\ args.start_angle = Zero
    /\ args.end_angle = TAU
    /\ arc_radius(0).ok
    /\ arc_radius(1).ok
    /\ ~arc_radius(RESOLUTION).ok
    /\ painter = <<>>

====
